---- MODULE Spec2Model ----
(***************************************************************************)
(* Model of graphgen's Klemm-Eguiluz generator binding                     *)
(* (src/graphgen/klemm/klemm_graph_generator.cpp).                         *)
(*                                                                         *)
(* GenerateKlemmGraph is followed statement by statement: argument         *)
(* parsing, the three local containers, the call of build_network_klemm,   *)
(* the three converters and the returned tuple.  build_network_klemm is    *)
(* declared in benchm.hpp; its two components (Network Grower, Weight      *)
(* Assigner) are modelled from sections 3, 4 and 7 of the specification.   *)
(* It reports a failure by its status, which line 37 drops, and leaves     *)
(* the containers as they are at that point; Wout has one map per node     *)
(* once the weight assigner has run.                                       *)
(*                                                                         *)
(* Encodings.  Node identifiers are 0-based.  A std::deque is a function   *)
(* with domain 0..size-1.  The real parameters clique_linkage, muw and     *)
(* beta are counted in halves (2 stands for 1.0).  A double weight is an   *)
(* integer counting units in the last place of a mantissa two bits longer  *)
(* than the one npy_float32 keeps.                                         *)
(***************************************************************************)
EXTENDS Integers, Sequences, FiniteSets, TLC

\* ---------------------------------------------------------------- bounds
MaxNodes == 6
MaxClique == 3
MaxCalls == 2

LinkageValues == {-1, 0, 1, 2, 3}
MuwValues == {0, 4}
BetaValues == {0, 1, 3}
SeedValues == {0, 1, 2}

Arguments ==
  [num_nodes : 1..MaxNodes, clique_size : 0..MaxClique,
   clique_linkage : LinkageValues, muw : MuwValues, beta : BetaValues,
   seed : SeedValues]

\* What the word after keyword_list's last entry holds in the build at hand:
\* the array has no NULL sentinel, and PyArg_ParseTupleAndKeywords scans it
\* up to the first NULL.
KwlistEnds == {"null", "string", "wild"}

VARIABLES
  args,          \* the Python arguments of the call
  args_ok,       \* whether they convert under the format "iidddi"
  kwlist_end,    \* the word behind keyword_list (fixed by the build)
  pc,            \* position inside GenerateKlemmGraph / build_network_klemm
  status,        \* status build_network_klemm ends with (discarded by the caller)
  Eout,          \* std::deque<std::set<int> >
  member_list,   \* std::deque<std::deque<int> >
  Wout,          \* std::deque<std::map<int, double> >
  rng,           \* state of the pseudo-random generator
  active,        \* the grower's active set
  anchor,        \* attachment anchor of the current growth step
  next_label,    \* identifier of the next clique / community
  edge_array,    \* numpy array of ConvertEdgeDequeToNumpyArray
  weight_array,  \* numpy array of ConvertWeightMapToNumpyArray
  member_tuple,  \* tuple of ConvertMemberDequeToTuple
  outcome,       \* "none" | "NULL" | "tuple" | "aborted"
  return_tuple,  \* the tuple handed back to Python (<<>> while there is none)
  calls,         \* number of the call in progress
  prev           \* outcome of the call before

vars == <<args, args_ok, kwlist_end, pc, status, Eout, member_list, Wout, rng,
          active, anchor, next_label, edge_array, weight_array, member_tuple,
          outcome, return_tuple, calls, prev>>

\* --------------------------------------------------------------- helpers
Min(S) == CHOOSE x \in S : \A y \in S : x <= y

\* Iteration order of a std::set<int>: ascending.
RECURSIVE SortedSeq(_)
SortedSeq(S) ==
  IF S = {} THEN <<>> ELSE <<Min(S)>> \o SortedSeq(S \ {Min(S)})

Size(d) == Cardinality(DOMAIN d)

EmptyDeque == [n \in {} |-> {}]

EmptyArray == [shape |-> <<0>>, data |-> <<>>]

\* int (or std::size_t) stored into an npy_uint64 cell: values >= 0 are kept,
\* a negative int wraps modulo 2^64.
AsUInt64(x) == IF x >= 0 THEN x ELSE [wrapped |-> x]

\* static_cast<long>(int) followed by PyLong_FromLong: a widening, value kept.
AsPyLong(x) == x

\* static_cast<npy_float32>(double): round to nearest, ties to even, onto a
\* mantissa two bits shorter.
NarrowToFloat32(w) ==
  LET lo == (w \div 4) * 4
      rem == w % 4
  IN IF rem < 2 THEN lo
     ELSE IF rem > 2 THEN lo + 4
     ELSE IF (lo \div 4) % 2 = 0 THEN lo ELSE lo + 4

\* ------------------------------------------------------------ converters
\* Lines 52-57 and 85-90: num_edges counts every (tail, head) entry.
RECURSIVE NumEdgesFrom(_, _)
NumEdgesFrom(E, tail) ==
  IF tail >= Size(E) THEN 0
  ELSE Cardinality(E[tail]) + NumEdgesFrom(E, tail + 1)

NumEdges(E) == NumEdgesFrom(E, 0)

\* Lines 72-76: data[edge_index] = tail; data[edge_index+1] = *head.
RECURSIVE FillHeads(_, _, _)
FillHeads(tail, heads, k) ==
  IF k > Len(heads) THEN <<>>
  ELSE <<AsUInt64(tail), AsUInt64(heads[k])>> \o FillHeads(tail, heads, k + 1)

\* Lines 71-77: the outer loop over tail.
RECURSIVE FillEdges(_, _)
FillEdges(E, tail) ==
  IF tail >= Size(E) THEN <<>>
  ELSE FillHeads(tail, SortedSeq(E[tail]), 1) \o FillEdges(E, tail + 1)

ConvertEdgeDequeToNumpyArray(E) ==
  [shape |-> <<NumEdges(E), 2>>, data |-> FillEdges(E, 0)]

\* Row k (1-based) of the E x 2 array, row-major.
Row(arr, k) == <<arr.data[2 * k - 1], arr.data[2 * k]>>

NumRows(arr) == arr.shape[1]

\* A lookup that answers a missing key with a default value 0.
MapAtDefault(m, key) ==
  IF key \in DOMAIN m THEN [thrown |-> FALSE, value |-> m[key]]
  ELSE [thrown |-> FALSE, value |-> 0]

\* std::map::at (line 105): throws std::out_of_range for a missing key.
MapAt(m, key) ==
  IF key \in DOMAIN m THEN [thrown |-> FALSE, value |-> m[key]]
  ELSE [thrown |-> TRUE, value |-> 0]

\* Lines 104-107: one float32 cell per head of this tail.
RECURSIVE FillWeightsOf(_, _, _)
FillWeightsOf(m, heads, k) ==
  IF k > Len(heads) THEN <<>>
  ELSE <<NarrowToFloat32(MapAt(m, heads[k]).value)>>
         \o FillWeightsOf(m, heads, k + 1)

\* The same loop writing the heads of a tail from the last to the first.
RECURSIVE FillWeightsOfReversed(_, _, _)
FillWeightsOfReversed(m, heads, k) ==
  IF k > Len(heads) THEN <<>>
  ELSE FillWeightsOfReversed(m, heads, k + 1)
         \o <<NarrowToFloat32(MapAt(m, heads[k]).value)>>

RECURSIVE FillWeightsReversed(_, _, _)
FillWeightsReversed(W, E, tail) ==
  IF tail >= Size(E) THEN <<>>
  ELSE FillWeightsOfReversed(W[tail], SortedSeq(E[tail]), 1)
         \o FillWeightsReversed(W, E, tail + 1)

\* A conversion whose inner loop runs over the heads backwards.
ConvertWeightMapReversed(W, E) ==
  [shape |-> <<NumEdges(E)>>, data |-> FillWeightsReversed(W, E, 0)]

\* Lines 103-108: the outer loop over tail.
RECURSIVE FillWeights(_, _, _)
FillWeights(W, E, tail) ==
  IF tail >= Size(E) THEN <<>>
  ELSE FillWeightsOf(W[tail], SortedSeq(E[tail]), 1)
         \o FillWeights(W, E, tail + 1)

\* Whether some Wout[tail].at(*head) of the fill loop throws.
WeightLookupThrows(W, E) ==
  \E tail \in DOMAIN E : \E head \in E[tail] : MapAt(W[tail], head).thrown

ConvertWeightMapToNumpyArray(W, E) ==
  [shape |-> <<NumEdges(E)>>, data |-> FillWeights(W, E, 0)]

\* A conversion that skips the first community of every node.
ConvertMemberDequeDropFirst(M) ==
  [k \in 1..Size(M) |->
     [j \in 1..(Len(M[k - 1]) - 1) |-> AsPyLong(M[k - 1][j + 1])]]

\* Lines 113-132: one tuple per node, one PyLong per community of the node.
ConvertMemberDequeToTuple(M) ==
  [k \in 1..Size(M) |->
     [j \in 1..Len(M[k - 1]) |-> AsPyLong(M[k - 1][j])]]

\* ---------------------------------------- build_network_klemm: the grower
RngModulus == 31

RngNext(r) == (r * 7 + 3) % RngModulus

RECURSIVE RngIter(_, _)
RngIter(r, k) == IF k = 0 THEN r ELSE RngIter(RngNext(r), k - 1)

\* A generator that keeps running from wherever the call before left it.
RngCarried(seed, old) == old

\* The generator is seeded from `seed` at the start of every run.
RngSeed(seed, old) == (seed + 1) % RngModulus

InvalidParameter(a) ==
  \/ a.num_nodes < a.clique_size
  \/ a.clique_size < 2
  \/ a.clique_linkage < 0 \/ a.clique_linkage > 2
  \/ a.beta < 0 \/ a.beta > 2
  \/ a.muw <= 0

SeedClique(cs) == [n \in 0..(cs - 1) |-> (0..(cs - 1)) \ {n}]

SeedMembers(cs) == [n \in 0..(cs - 1) |-> <<0>>]

Degree(E, n) == Cardinality(E[n])

RECURSIVE SumOver(_, _)
SumOver(S, wt) ==
  IF S = {} THEN 0 ELSE wt[Min(S)] + SumOver(S \ {Min(S)}, wt)

UniformPick(S, r) == SortedSeq(S)[(r % Cardinality(S)) + 1]

RECURSIVE WeightedWalk(_, _, _, _)
WeightedWalk(seq, wt, t, k) ==
  IF k >= Len(seq) \/ t < wt[seq[k]] THEN seq[k]
  ELSE WeightedWalk(seq, wt, t - wt[seq[k]], k + 1)

WeightedPick(S, wt, r) ==
  WeightedWalk(SortedSeq(S), wt, r % SumOver(S, wt), 1)

MaxDegree(S, E) ==
  CHOOSE d \in {Degree(E, n) : n \in S} : \A n \in S : Degree(E, n) <= d

\* Step 1: degree-proportional with probability clique_linkage, else uniform.
SelectAnchor(S, E, L, r1, r2) ==
  IF (r1 % 2) < L
  THEN WeightedPick(S, [n \in S |-> Degree(E, n)], r2)
  ELSE UniformPick(S, r2)

\* Step 4's eviction: the same policy, biased toward low degree.
SelectEvicted(S, E, L, r1, r2) ==
  IF (r1 % 2) < L
  THEN WeightedPick(S, [n \in S |-> MaxDegree(S, E) + 1 - Degree(E, n)], r2)
  ELSE UniformPick(S, r2)

RECURSIVE PickMembers(_, _, _)
PickMembers(pool, k, r) ==
  IF k <= 0 \/ pool = {} THEN [picked |-> {}, rng |-> r]
  ELSE LET r1 == RngNext(r)
           m == UniformPick(pool, r1)
           rest == PickMembers(pool \ {m}, k - 1, r1)
       IN [picked |-> {m} \cup rest.picked, rng |-> rest.rng]

\* Steps 1 and 2: the anchor and the clique_size - 2 further members, taken
\* from the anchor's neighbourhood and, if that is too small, from the
\* active set.
NewClique(E, act, cs, L, r) ==
  LET r1 == RngNext(r)
      r2 == RngNext(r1)
      c == SelectAnchor(act, E, L, r1, r2)
      nb == PickMembers(E[c], cs - 2, r2)
      more == PickMembers(act \ ({c} \cup nb.picked),
                          cs - 2 - Cardinality(nb.picked), nb.rng)
  IN [anchor |-> c, members |-> {c} \cup nb.picked \cup more.picked,
      rng |-> more.rng]

\* Step 2: node i joins, all pairs of the clique are connected.
ConnectClique(E, i, members) ==
  LET clique == members \cup {i}
  IN [n \in 0..i |->
        IF n = i THEN clique \ {i}
        ELSE IF n \in clique THEN E[n] \cup (clique \ {n})
        ELSE E[n]]

\* Step 3: node i is labelled with the new clique; the other members keep
\* their labels and gain the new one (overlapping communities).
LabelClique(M, i, members, label) ==
  [n \in 0..i |->
     IF n = i THEN <<label>>
     ELSE IF n \in members THEN Append(M[n], label)
     ELSE M[n]]

ActiveCapacity(cs) == cs

\* Step 4 without the eviction.
ActivateNodeNoEviction(act, i, E, cs, L, r) ==
  [active |-> act \cup {i}, rng |-> r]

\* Step 4: insert node i, evict one member when the capacity is exceeded.
ActivateNode(act, i, E, cs, L, r) ==
  LET grown == act \cup {i}
      r1 == RngNext(r)
      r2 == RngNext(r1)
  IN IF Cardinality(grown) > ActiveCapacity(cs)
     THEN [active |-> grown \ {SelectEvicted(grown, E, L, r1, r2)}, rng |-> r2]
     ELSE [active |-> grown, rng |-> r]

\* --------------------------------- build_network_klemm: weight assignment
Labels(M, n) == {M[n][j] : j \in 1..Len(M[n])}

IntraEdges(E, M, n) == {v \in E[n] : Labels(M, n) \cap Labels(M, v) # {}}

InterEdges(E, M, n) == E[n] \ IntraEdges(E, M, n)

DegenerateInput(E, M, beta) ==
  \E n \in DOMAIN E :
     \/ InterEdges(E, M, n) = {} /\ beta > 0
     \/ IntraEdges(E, M, n) = {} /\ beta < 2

Undirected(E) == {<<u, v>> \in (DOMAIN E) \X (DOMAIN E) : u < v /\ v \in E[u]}

\* Position of edge {u, v} in the lexicographic order of the edge set.
EdgeRank(E, u, v) ==
  LET lo == IF u < v THEN u ELSE v
      hi == IF u < v THEN v ELSE u
  IN Cardinality({e \in Undirected(E) :
                    e[1] < lo \/ (e[1] = lo /\ e[2] <= hi)})

\* Base magnitude of the k-th edge, drawn from the generator.
Magnitude(r, k) == 8 + (RngIter(r, k) % 8)

\* One weight per edge, the same seen from either endpoint.  With no
\* inter-community edge at any node and beta = 0 the rescaling factor is 1
\* and the symmetric resolution of two equal values is that value.
AssignedWeights(E, r) ==
  [n \in DOMAIN E |-> [v \in E[n] |-> Magnitude(r, EdgeRank(E, n, v))]]

NoWeights(E) == [n \in DOMAIN E |-> [v \in {} |-> 0]]

\* ------------------------------------------------------------------ Init
NoOutcome == [outcome |-> "none", value |-> <<>>]

Init ==
  /\ args \in Arguments
  /\ args_ok \in BOOLEAN
  /\ kwlist_end \in KwlistEnds
  /\ pc = "entry"
  /\ status = "none"
  /\ Eout = EmptyDeque
  /\ member_list = EmptyDeque
  /\ Wout = EmptyDeque
  /\ rng = 0
  /\ active = {}
  /\ anchor = -1
  /\ next_label = 0
  /\ edge_array = EmptyArray
  /\ weight_array = EmptyArray
  /\ member_tuple = <<>>
  /\ outcome = "none"
  /\ return_tuple = <<>>
  /\ calls = 1
  /\ prev = NoOutcome

\* ------------------------------------------------- GenerateKlemmGraph
\* Lines 27-32.
ParseArgs ==
  /\ pc = "entry"
  /\ IF kwlist_end = "wild"
     THEN /\ outcome' = "aborted"
          /\ pc' = "done"
     ELSE IF kwlist_end = "string" \/ ~args_ok
     THEN /\ outcome' = "NULL"
          /\ pc' = "done"
     ELSE /\ outcome' = outcome
          /\ pc' = "parsed"
  /\ UNCHANGED <<args, args_ok, kwlist_end, status, Eout, member_list, Wout,
                 rng, active, anchor, next_label, edge_array, weight_array,
                 member_tuple, return_tuple, calls, prev>>

\* Lines 34-36: the three containers, empty.
AllocGraphState ==
  /\ pc = "parsed"
  /\ Eout' = EmptyDeque
  /\ member_list' = EmptyDeque
  /\ Wout' = EmptyDeque
  /\ pc' = "allocated"
  /\ UNCHANGED <<args, args_ok, kwlist_end, status, rng, active, anchor,
                 next_label, edge_array, weight_array, member_tuple, outcome,
                 return_tuple, calls, prev>>

\* Line 37, entry of build_network_klemm: validation, then the seed clique.
BuildNetworkInit ==
  /\ pc = "allocated"
  /\ IF InvalidParameter(args)
     THEN /\ status' = "InvalidParameter"
          /\ pc' = "built"
          /\ UNCHANGED <<Eout, member_list, rng, active, next_label>>
     ELSE /\ status' = "growing"
          /\ Eout' = SeedClique(args.clique_size)
          /\ member_list' = SeedMembers(args.clique_size)
          /\ active' = 0..(args.clique_size - 1)
          /\ next_label' = 1
          /\ rng' = RngSeed(args.seed, rng)
          /\ pc' = "growing"
  /\ UNCHANGED <<args, args_ok, kwlist_end, Wout, anchor, edge_array,
                 weight_array, member_tuple, outcome, return_tuple, calls, prev>>

\* Growth loop, steps 1-3 for node i = Size(Eout).
GrowAttach ==
  /\ pc = "growing"
  /\ Size(Eout) < args.num_nodes
  /\ LET i == Size(Eout)
         nc == NewClique(Eout, active, args.clique_size, args.clique_linkage, rng)
     IN /\ anchor' = nc.anchor
        /\ Eout' = ConnectClique(Eout, i, nc.members)
        /\ member_list' = LabelClique(member_list, i, nc.members, next_label)
        /\ rng' = nc.rng
  /\ next_label' = next_label + 1
  /\ pc' = "attached"
  /\ UNCHANGED <<args, args_ok, kwlist_end, status, Wout, active, edge_array,
                 weight_array, member_tuple, outcome, return_tuple, calls, prev>>

\* Growth loop, step 4 for the node just added.
GrowActivate ==
  /\ pc = "attached"
  /\ LET res == ActivateNode(active, Size(Eout) - 1, Eout, args.clique_size,
                             args.clique_linkage, rng)
     IN /\ active' = res.active
        /\ rng' = res.rng
  /\ pc' = "growing"
  /\ UNCHANGED <<args, args_ok, kwlist_end, status, Eout, member_list, Wout,
                 anchor, next_label, edge_array, weight_array, member_tuple,
                 outcome, return_tuple, calls, prev>>

\* After node num_nodes - 1: the weight assigner, then the return to line 37.
AssignWeights ==
  /\ pc = "growing"
  /\ Size(Eout) = args.num_nodes
  /\ IF DegenerateInput(Eout, member_list, args.beta)
     THEN /\ status' = "DegenerateInput"
          /\ Wout' = NoWeights(Eout)
          /\ rng' = rng
     ELSE /\ status' = "ok"
          /\ Wout' = AssignedWeights(Eout, rng)
          /\ rng' = RngIter(rng, Cardinality(Undirected(Eout)))
  /\ pc' = "built"
  /\ UNCHANGED <<args, args_ok, kwlist_end, Eout, member_list, active, anchor,
                 next_label, edge_array, weight_array, member_tuple, outcome,
                 return_tuple, calls, prev>>

\* Line 39.  Whatever build_network_klemm returned is dropped at line 37.
ConvertEdges ==
  /\ pc = "built"
  /\ edge_array' = ConvertEdgeDequeToNumpyArray(Eout)
  /\ pc' = "edges"
  /\ UNCHANGED <<args, args_ok, kwlist_end, status, Eout, member_list, Wout,
                 rng, active, anchor, next_label, weight_array, member_tuple,
                 outcome, return_tuple, calls, prev>>

\* Line 40.  An exception of map::at leaves GenerateKlemmGraph, which has no
\* handler: the process is terminated.
ConvertWeights ==
  /\ pc = "edges"
  /\ IF WeightLookupThrows(Wout, Eout)
     THEN /\ outcome' = "aborted"
          /\ pc' = "done"
          /\ weight_array' = weight_array
     ELSE /\ weight_array' = ConvertWeightMapToNumpyArray(Wout, Eout)
          /\ pc' = "weights"
          /\ outcome' = outcome
  /\ UNCHANGED <<args, args_ok, kwlist_end, status, Eout, member_list, Wout,
                 rng, active, anchor, next_label, edge_array, member_tuple,
                 return_tuple, calls, prev>>

\* Line 41.
ConvertMembers ==
  /\ pc = "weights"
  /\ member_tuple' = ConvertMemberDequeToTuple(member_list)
  /\ pc' = "members"
  /\ UNCHANGED <<args, args_ok, kwlist_end, status, Eout, member_list, Wout,
                 rng, active, anchor, next_label, edge_array, weight_array,
                 outcome, return_tuple, calls, prev>>

\* Lines 42-47.
ReturnTuple ==
  /\ pc = "members"
  /\ return_tuple' = <<edge_array, member_tuple, weight_array>>
  /\ outcome' = "tuple"
  /\ pc' = "done"
  /\ UNCHANGED <<args, args_ok, kwlist_end, status, Eout, member_list, Wout,
                 rng, active, anchor, next_label, edge_array, weight_array,
                 member_tuple, calls, prev>>

\* The caller runs the generator again with the same arguments.  Locals of
\* the finished call are gone; the generator state is the one it left.
CallAgain ==
  /\ pc = "done"
  /\ calls < MaxCalls
  /\ calls' = calls + 1
  /\ prev' = [outcome |-> outcome, value |-> return_tuple]
  /\ pc' = "entry"
  /\ status' = "none"
  /\ Eout' = EmptyDeque
  /\ member_list' = EmptyDeque
  /\ Wout' = EmptyDeque
  /\ active' = {}
  /\ anchor' = -1
  /\ next_label' = 0
  /\ edge_array' = EmptyArray
  /\ weight_array' = EmptyArray
  /\ member_tuple' = <<>>
  /\ outcome' = "none"
  /\ return_tuple' = <<>>
  /\ UNCHANGED <<args, args_ok, kwlist_end, rng>>

Next ==
  \/ ParseArgs
  \/ AllocGraphState
  \/ BuildNetworkInit
  \/ GrowAttach
  \/ GrowActivate
  \/ AssignWeights
  \/ ConvertEdges
  \/ ConvertWeights
  \/ ConvertMembers
  \/ ReturnTuple
  \/ CallAgain

Spec == Init /\ [][Next]_vars

\* ------------------------------------------------------------ properties
RowTail(k) == Row(edge_array, k)[1]

RowHead(k) == Row(edge_array, k)[2]

Rows == 1..NumRows(edge_array)

WeightsMade ==
  pc \in {"weights", "members"} \/ (pc = "done" /\ outcome = "tuple")

MembersMade == pc = "members" \/ (pc = "done" /\ outcome = "tuple")

GrowthRan == status \in {"growing", "ok", "DegenerateInput"}

\* C1: every row (tail, head) of the emitted edge list has tail < head, and
\* no undirected edge {u,v} is emitted in more than one row.
C1_TailBelowHeadOncePerEdge ==
  \A k \in Rows :
     /\ RowTail(k) < RowHead(k)
     /\ \A j \in Rows : j # k => {RowTail(j), RowHead(j)} # {RowTail(k), RowHead(k)}

\* C2 as stated: the weight array has one entry per row of the edge array
\* and its k-th entry is the weight stored for the pair of row k.
C2_WeightIsStoredWeight ==
  WeightsMade =>
     /\ Len(weight_array.data) = NumRows(edge_array)
     /\ \A k \in Rows : weight_array.data[k] = Wout[RowTail(k)][RowHead(k)]

\* C2 amended: the weight array has one entry per row of the edge array, and
\* its k-th entry is the weight stored for the pair of row k narrowed to
\* single precision; no cell is skipped and none is written twice.
C2_WeightIsNarrowedStoredWeight ==
  WeightsMade =>
     /\ weight_array.shape = <<NumRows(edge_array)>>
     /\ Len(weight_array.data) = NumRows(edge_array)
     /\ \A k \in Rows :
          weight_array.data[k] = NarrowToFloat32(Wout[RowTail(k)][RowHead(k)])

\* A returned graph with a node of two differently weighted edges and a
\* weight that single precision does not hold.
C2_Witness ==
  /\ pc = "done" /\ outcome = "tuple"
  /\ \E k \in Rows : weight_array.data[k] # Wout[RowTail(k)][RowHead(k)]
  /\ \E j, k \in Rows :
        RowTail(j) = RowTail(k) /\ weight_array.data[j] # weight_array.data[k]

\* The adjacency structure is irreflexive and records every edge at both of
\* its endpoints, among the nodes added so far.
SimpleGraph(E) ==
  \A n \in DOMAIN E :
     /\ n \notin E[n]
     /\ \A v \in E[n] : v \in DOMAIN E /\ n \in E[v]

\* C3: the edge set is simple in every state of the growth, and the final
\* edge list has no row with u = v and lists no unordered pair twice.
C3_SimpleThroughout ==
  /\ SimpleGraph(Eout)
  /\ \A k \in Rows :
        /\ RowTail(k) # RowHead(k)
        /\ Cardinality({j \in Rows :
                          {RowTail(j), RowHead(j)} = {RowTail(k), RowHead(k)}}) <= 1

\* C4: once a node is added it has at least clique_size - 1 edges and a
\* community label; after the growth every node of [0, num_nodes) is
\* there, and the member tuple has one non-empty entry per node.
C4_Coverage ==
  /\ GrowthRan =>
        \A n \in DOMAIN Eout :
           /\ Degree(Eout, n) >= args.clique_size - 1
           /\ Len(member_list[n]) >= 1
  /\ (GrowthRan /\ pc \notin {"growing", "attached"}) =>
        DOMAIN Eout = 0..(args.num_nodes - 1)
  /\ (GrowthRan /\ MembersMade) =>
        /\ Len(member_tuple) = args.num_nodes
        /\ \A k \in 1..Len(member_tuple) :
              /\ Len(member_tuple[k]) >= 1
              /\ member_tuple[k] = member_list[k - 1]

\* A returned graph that grew beyond the seed clique.
C4_Witness ==
  /\ pc = "done" /\ outcome = "tuple" /\ status = "ok"
  /\ args.num_nodes > args.clique_size
  /\ Len(member_tuple) = args.num_nodes

\* C5: with num_nodes < clique_size, clique_size < 2 or clique_linkage
\* outside [0,1] the call fails before any graph state is allocated and
\* before any growth step, and returns no graph.
C5_InvalidParameterFailsFirst ==
  (\/ args.num_nodes < args.clique_size
   \/ args.clique_size < 2
   \/ args.clique_linkage < 0 \/ args.clique_linkage > 2) =>
     /\ pc \notin {"allocated", "growing", "attached", "built", "edges",
                   "weights", "members"}
     /\ outcome # "tuple"

\* C6: a call ends either with the complete, mutually consistent triple of
\* a run that succeeded, or with a failure and nothing returned.
C6_AllOrNothing ==
  pc = "done" =>
     \/ outcome \in {"NULL", "aborted"} /\ return_tuple = <<>>
     \/ /\ outcome = "tuple"
        /\ status = "ok"
        /\ return_tuple = <<edge_array, member_tuple, weight_array>>
        /\ Len(member_tuple) = args.num_nodes
        /\ NumRows(edge_array) = NumEdges(Eout)
        /\ Len(weight_array.data) = NumRows(edge_array)

\* C7: with num_nodes = clique_size no growth step runs; the edge list has
\* exactly clique_size*(clique_size-1)/2 rows, the complete graph on
\* 0..clique_size-1, and every node carries the same single label.
C7_SeedCliqueOnly ==
  (/\ args.num_nodes = args.clique_size
   /\ pc = "done" /\ outcome = "tuple" /\ status = "ok") =>
     /\ next_label = 1
     /\ 2 * NumRows(edge_array) = args.clique_size * (args.clique_size - 1)
     /\ \A u, v \in 0..(args.clique_size - 1) :
           u < v => \E k \in Rows : RowTail(k) = u /\ RowHead(k) = v
     /\ \A k \in 1..Len(member_tuple) :
           Len(member_tuple[k]) = 1 /\ member_tuple[k] = member_tuple[1]

C10_ActiveSetBounded ==
  pc \in {"growing", "attached"} =>
     /\ active # {}
     /\ active \subseteq DOMAIN Eout
     /\ pc = "attached" => anchor \in active
     /\ pc = "growing" =>
           Cardinality(active) <= ActiveCapacity(args.clique_size)

\* After a step whose insertion forced an eviction and kept the new node.
C10_Witness ==
  /\ pc = "growing"
  /\ Size(Eout) > args.clique_size
  /\ (Size(Eout) - 1) \in active
  /\ Cardinality(active) = ActiveCapacity(args.clique_size)
  /\ anchor \in DOMAIN Eout

====
